---- MODULE Spec2Model ----
(***************************************************************************)
(* Model of odm_25dmeshing (Odm25dMeshing.cpp, the VTK based revision):    *)
(* run -> parseArguments -> loadPointCloud -> buildMesh, and the raster    *)
(* diffusion that buildMesh configures.                                    *)
(*                                                                         *)
(* Specifications.  Spec: a run of the program.  SpecSmooth: the passes    *)
(* of the diffusion, cell by cell and thread by thread.  SpecTransform:    *)
(* the world transform on one vertex.  SpecGrid: buildMesh from the        *)
(* rasterizer to the decimator on a grid cloud followed point by point.    *)
(*                                                                         *)
(* Numbers.  A double is kept as a decimal float [m |-> mantissa,          *)
(* e |-> exponent] standing for m * 10^e with m in -9..9; an unsigned int  *)
(* is kept as the signed integer with the same 32 bit pattern, so that     *)
(* the value 2^32 - 5 is written -5 and compared with ULess.               *)
(***************************************************************************)
EXTENDS Integers, Sequences, FiniteSets, TLC

VARIABLES
    pc,               \* position of the process inside run()
    nParsed,          \* command line options consumed so far
    lastArg,          \* the option and value parseArguments handled last
    maxVertexCount, resolution, shepardNeighbors,
    inputFile, outputFile, outputDsmFile, logFilePath,
    showDebugWindow, verbose,
    opened,           \* paths opened for writing (created or truncated)
    meshWritten,      \* the PLY writer has written the mesh to outputFile
    blob,             \* the point cloud read from inputFile, once it was read
    points,           \* number of points in the Point Store
    cleaned,          \* number of points left by the outlier removal
    extentX, extentY, width, height,
    iterations,       \* value handed to SetNumberOfIterations
    budget,           \* value handed to SetNumberOfTriangles
    nTriangles, nInserted, cornersIn,
    executed,         \* stages that ran to completion, in order
    failedStage,      \* stage that raised, "none" otherwise
    exception,        \* the exception in flight
    logged,           \* e.what() as written to the log by a catch clause
    exitCode,
    \* ---- raster diffusion (vtkImageAnisotropicDiffusion2D) ----
    dpc, dW, dH, inBuf, outBuf, origBuf, pos, iterLeft,
    \* ---- world transform (vtkTransform, vtkTransformFilter) ----
    tpc,              \* position inside the construction and use of the transform
    center,           \* midpoint of the bounding box of the squashed cloud
    transform,        \* the matrix of the vtkTransform
    vertex,           \* a vertex of the decimated mesh, (i, j, elevation)
    worldVertex,      \* the vertex as the transform filter puts it out
    \* ---- the squashed cloud, point by point ----
    polydataToProcess \* planar grid positions with their elevation scalars

cfgVars == <<maxVertexCount, resolution, shepardNeighbors, inputFile, outputFile,
             outputDsmFile, logFilePath, showDebugWindow, verbose>>
meshVars == <<blob, points, cleaned, extentX, extentY, width, height, iterations,
              budget, nTriangles, nInserted, cornersIn>>
runVars == <<pc, nParsed, lastArg, opened, meshWritten, executed, failedStage,
             exception, logged, exitCode>>
diffVars == <<dpc, dW, dH, inBuf, outBuf, origBuf, pos, iterLeft>>
auxVars == <<tpc, center, transform, vertex, worldVertex, polydataToProcess>>
vars == <<cfgVars, meshVars, runVars, diffVars, auxVars>>

----------------------------------------------------------------------------
(* Bounds *)
MaxArgs == 2          \* options on one command line
MaxPoints == 26       \* largest cloud
MaxExtent == 2        \* largest bounding box side, in length units
MaxDim == 6           \* largest raster side that is explored
MaxInsertions == 3    \* insertions of the decimator that are explored
MaxCells == 6         \* most cells of a raster that is diffused
MaxIter == 2          \* most diffusion iterations
NumThreads == 2       \* worker threads of the diffusion

(* Program constants *)
SampleSize == 24
NODATA == -9999000    \* -9999, in 1/1000 length units
DiffusionThreshold == 200   \* 0.2, in 1/1000 length units

----------------------------------------------------------------------------
(* Decimal floats *)
Real(m, e) == [m |-> m, e |-> e]
Zero == Real(0, 0)

RECURSIVE Pow10(_)
Pow10(n) == IF n = 0 THEN 1 ELSE 10 * Pow10(n - 1)

PosLess(a, b) == a.e < b.e \/ (a.e = b.e /\ a.m < b.m)
RLess(a, b) ==
    IF a.m > 0 /\ b.m > 0 THEN PosLess(a, b)
    ELSE IF a.m < 0 /\ b.m < 0 THEN PosLess(Real(-b.m, b.e), Real(-a.m, a.e))
    ELSE a.m < b.m
RMax(a, b) == IF RLess(a, b) THEN b ELSE a
RMin(a, b) == IF RLess(b, a) THEN b ELSE a

CeilDiv(a, b) == (a + b - 1) \div b

\* ceil(extent * r) for an integer extent >= 0 and r >= 0
CeilTimes(extent, r) ==
    IF r.e >= 0 THEN extent * r.m * Pow10(r.e)
    ELSE CeilDiv(extent * r.m, Pow10(-r.e))

\* (int)(r / 2.0) for r >= 0: the conversion truncates toward zero
TruncHalf(r) == IF r.e >= 0 THEN (r.m * Pow10(r.e)) \div 2 ELSE 0

\* r / 2 rounded to the nearest integer, halves away from zero
RoundHalf(r) == IF r.e >= 0 THEN (r.m * Pow10(r.e) + 1) \div 2 ELSE 0

(* unsigned int, as 32 bit patterns *)
ULess(a, b) == IF (a < 0) = (b < 0) THEN a < b ELSE b < 0
UMax(a, b) == IF ULess(a, b) THEN b ELSE a
UMin(a, b) == IF ULess(b, a) THEN b ELSE a

----------------------------------------------------------------------------
(* Command line values and what operator>> extracts from them *)
VertexCountTokens == {"0", "1", "2", "abc"}
ShepardTokens == {"0", "1", "24", "1000", "5000", "-5", "abc"}
ResolutionTokens == {"-5", "0", "0.000005", "0.00001", "1", "3", "100000", "200000", "abc"}

\* ss >> (unsigned int): digits up to the first other character; a leading
\* minus sign negates modulo 2^32; no digits at all stores 0 and sets failbit
ExtractUInt(tok) ==
    CASE tok = "0" -> 0 [] tok = "1" -> 1 [] tok = "2" -> 2 [] tok = "3" -> 3
      [] tok = "24" -> 24 [] tok = "1000" -> 1000 [] tok = "5000" -> 5000
      [] tok = "-5" -> -5
      [] tok = "100000" -> 100000 [] tok = "200000" -> 200000
      [] tok = "0.000005" -> 0 [] tok = "0.00001" -> 0
      [] OTHER -> 0

\* ss >> (double); no number at all stores 0 and sets failbit
ExtractDouble(tok) ==
    CASE tok = "0" -> Zero [] tok = "1" -> Real(1, 0) [] tok = "2" -> Real(2, 0)
      [] tok = "3" -> Real(3, 0) [] tok = "-5" -> Real(-5, 0)
      [] tok = "1000" -> Real(1, 3) [] tok = "5000" -> Real(5, 3)
      [] tok = "0.000005" -> Real(5, -6) [] tok = "0.00001" -> Real(1, -5)
      [] tok = "100000" -> Real(1, 5) [] tok = "200000" -> Real(2, 5)
      [] OTHER -> Zero

\* the number the token denotes, when it denotes one
IsNumeric(tok) == tok # "abc"

\* ss.bad(): badbit reports an I/O error of the stream buffer; a failed
\* extraction from a string stream sets failbit only
ss_bad(tok) == FALSE

ResolutionMin == Real(1, -5)
ResolutionMax == Real(1, 5)
ClampResolution(r) == RMin(ResolutionMax, RMax(r, ResolutionMin))

ShepardMin == 1
ShepardMax == 1000
ClampShepardNeighbors(n) == UMin(ShepardMax, UMax(n, ShepardMin))

ClampMaxVertexCount(n) == UMax(n, 0)

(* Files *)
DefaultOutputFile == "odm_25dmesh.ply"
DefaultLogFilePath == "odm_25dmeshing_log.txt"
OutputPaths == {"mesh.ply", "/missing/mesh.ply"}
DsmPaths == {"dsm.tif", "/missing/dsm.tif"}
LogPaths == {"log.txt", "/missing/log.txt"}
InputPaths == {"cloud.ply", "/missing/cloud.ply"}

\* std::ofstream(path).is_open()
Writable(path) == path \notin {"", "/missing/mesh.ply", "/missing/dsm.tif", "/missing/log.txt"}
\* std::ifstream(path).is_open()
Readable(path) == path = "cloud.ply"

(* Point clouds *)
PointCounts == {1, SampleSize, SampleSize + 1, MaxPoints}
FieldSets == {{"x", "y", "z"}, {"x", "y"}, {"y", "z"}, {}}
Datatypes == {"FLOAT32", "FLOAT64", "INT32"}
Clouds == [fields : FieldSets, datatype : Datatypes, n : PointCounts]

(* Stages of one run *)
StageOrder == <<"load", "filter", "project", "raster", "smooth", "decimate",
                "transform", "write">>
StageOf(p) == IF p = "insert" THEN "decimate" ELSE p
IsStage(p) == \E k \in 1..Len(StageOrder) : StageOrder[k] = StageOf(p)

NoArg == [opt |-> "", val |-> ""]
NoException == [kind |-> "none", what |-> ""]
NoBlob == [fields |-> {}, datatype |-> "", n |-> 0]

----------------------------------------------------------------------------
(* The diffusion variables are idle during a run of the program *)
DiffusionIdle ==
    /\ dpc = "off" /\ dW = 0 /\ dH = 0 /\ inBuf = <<>> /\ outBuf = <<>>
    /\ origBuf = <<>> /\ pos = <<>> /\ iterLeft = 0

\* exact fractions n / d in lowest terms with d > 0, for the coordinates the
\* transform works on
RECURSIVE GCD(_, _)
GCD(a, b) == IF b = 0 THEN a ELSE GCD(b, a % b)
Q(n, d) ==
    LET sn == IF d < 0 THEN -n ELSE n
        sd == IF d < 0 THEN -d ELSE d
        g == GCD(IF sn < 0 THEN -sn ELSE sn, sd)
    IN  [n |-> sn \div g, d |-> sd \div g]
QInt(n) == Q(n, 1)
QAdd(a, b) == Q(a.n * b.d + b.n * a.d, a.d * b.d)
QNeg(a) == Q(-a.n, a.d)
QMul(a, b) == Q(a.n * b.n, a.d * b.d)

\* a matrix with a diagonal s and a translation column t: p |-> s * p + t
Matrix(s, t) == [s |-> s, t |-> t]
Identity == Matrix(<<QInt(1), QInt(1), QInt(1)>>, <<QInt(0), QInt(0), QInt(0)>>)
NoVertex == <<QInt(0), QInt(0), QInt(0)>>

(* The transform variables are idle unless the transform is examined *)
TransformIdle ==
    /\ tpc = "off" /\ center = <<QInt(0), QInt(0)>> /\ transform = Identity
    /\ vertex = <<0, 0, 0>> /\ worldVertex = NoVertex

(* The cloud is followed point by point in the grid scenario only *)
NoCloud == [side |-> 0, elevation |-> <<>>]
CloudIdle == polydataToProcess = NoCloud

DefaultVertexCounts == {0, 1, 3}
DefaultResolutions == {Real(1, 0), Real(3, 0)}

Init ==
    /\ pc = "start" /\ nParsed = 0 /\ lastArg = NoArg
    /\ maxVertexCount \in DefaultVertexCounts
    /\ resolution \in DefaultResolutions
    /\ shepardNeighbors = SampleSize
    /\ inputFile = "" /\ outputFile = DefaultOutputFile /\ outputDsmFile = ""
    /\ logFilePath = DefaultLogFilePath
    /\ showDebugWindow = FALSE /\ verbose = FALSE
    /\ opened = {} /\ meshWritten = FALSE
    /\ blob = NoBlob /\ points = 0 /\ cleaned = 0
    /\ extentX = 0 /\ extentY = 0 /\ width = 0 /\ height = 0
    /\ iterations = 0 /\ budget = 0
    /\ nTriangles = 0 /\ nInserted = 0 /\ cornersIn = FALSE
    /\ executed = <<>> /\ failedStage = "none"
    /\ exception = NoException /\ logged = "" /\ exitCode = "none"
    /\ DiffusionIdle /\ TransformIdle /\ CloudIdle

\* throw: control leaves the try block for the matching catch clause
Raise(stage, kind, what) ==
    /\ exception' = [kind |-> kind, what |-> what]
    /\ failedStage' = stage
    /\ pc' = "catch"

(* run(): no arguments, print help and return early *)
RunNoArgs ==
    /\ pc = "start"
    /\ pc' = "done" /\ exitCode' = "EXIT_SUCCESS"
    /\ UNCHANGED <<cfgVars, meshVars, diffVars, auxVars, nParsed, lastArg, opened, meshWritten,
                   executed, failedStage, exception, logged>>

RunWithArgs ==
    /\ pc = "start"
    /\ pc' = "parse"
    /\ UNCHANGED <<cfgVars, meshVars, diffVars, auxVars, nParsed, lastArg, opened, meshWritten,
                   executed, failedStage, exception, logged, exitCode>>

\* one iteration of the loop of parseArguments over option opt with value val
Parsing(opt, val) ==
    /\ pc = "parse" /\ nParsed < MaxArgs
    /\ nParsed' = nParsed + 1
    /\ lastArg' = [opt |-> opt, val |-> val]
    /\ UNCHANGED <<meshVars, diffVars, auxVars, meshWritten, executed, logged, exitCode>>

Continue == pc' = "parse" /\ UNCHANGED <<failedStage, exception>>

ParseHelp ==
    /\ pc = "parse" /\ nParsed < MaxArgs
    /\ pc' = "done" /\ exitCode' = "exit(0)"
    /\ nParsed' = nParsed + 1 /\ lastArg' = [opt |-> "-help", val |-> ""]
    /\ UNCHANGED <<cfgVars, meshVars, diffVars, auxVars, opened, meshWritten, executed,
                   failedStage, exception, logged>>

ParseVerbose ==
    /\ Parsing("-verbose", "")
    /\ verbose' = TRUE
    /\ Continue
    /\ UNCHANGED <<maxVertexCount, resolution, shepardNeighbors, inputFile, outputFile,
                   outputDsmFile, logFilePath, showDebugWindow, opened>>

ParseMissingValue(opt) ==
    /\ Parsing(opt, "")
    /\ Raise("parse", "odm", "expects 1 more input")
    /\ UNCHANGED <<cfgVars, opened>>

ParseMaxVertexCount(tok) ==
    /\ Parsing("-maxVertexCount", tok)
    /\ IF ss_bad(tok)
       THEN /\ maxVertexCount' = ExtractUInt(tok)
            /\ Raise("parse", "odm", "has a bad value (wrong type)")
       ELSE /\ maxVertexCount' = ClampMaxVertexCount(ExtractUInt(tok))
            /\ Continue
    /\ UNCHANGED <<resolution, shepardNeighbors, inputFile, outputFile,
                   outputDsmFile, logFilePath, showDebugWindow, verbose, opened>>

ParseResolution(tok) ==
    /\ Parsing("-resolution", tok)
    /\ IF ss_bad(tok)
       THEN /\ resolution' = ExtractDouble(tok)
            /\ Raise("parse", "odm", "has a bad value (wrong type)")
       ELSE /\ resolution' = ClampResolution(ExtractDouble(tok))
            /\ Continue
    /\ UNCHANGED <<maxVertexCount, shepardNeighbors, inputFile, outputFile,
                   outputDsmFile, logFilePath, showDebugWindow, verbose, opened>>

ParseShepardNeighbors(tok) ==
    /\ Parsing("-shepardNeighbors", tok)
    /\ IF ss_bad(tok)
       THEN /\ shepardNeighbors' = ExtractUInt(tok)
            /\ Raise("parse", "odm", "has a bad value (wrong type)")
       ELSE /\ shepardNeighbors' = ClampShepardNeighbors(ExtractUInt(tok))
            /\ Continue
    /\ UNCHANGED <<maxVertexCount, resolution, inputFile, outputFile,
                   outputDsmFile, logFilePath, showDebugWindow, verbose, opened>>

ParseInputFile(path) ==
    /\ Parsing("-inputFile", path)
    /\ inputFile' = path
    /\ IF Readable(path) THEN Continue
       ELSE Raise("parse", "odm", "has a bad value. (file not accessible)")
    /\ UNCHANGED <<maxVertexCount, resolution, shepardNeighbors, outputFile,
                   outputDsmFile, logFilePath, showDebugWindow, verbose, opened>>

\* std::ofstream testFile(path): opening for writing creates or truncates path
TestOpen(path, what) ==
    IF Writable(path)
    THEN opened' = opened \cup {path} /\ Continue
    ELSE opened' = opened /\ Raise("parse", "odm", what)

ParseOutputFile(path) ==
    /\ Parsing("-outputFile", path)
    /\ outputFile' = path
    /\ TestOpen(path, "has a bad value.")
    /\ UNCHANGED <<maxVertexCount, resolution, shepardNeighbors, inputFile,
                   outputDsmFile, logFilePath, showDebugWindow, verbose>>

ParseOutputDsmFile(path) ==
    /\ Parsing("-outputDsmFile", path)
    /\ outputDsmFile' = path
    /\ TestOpen(path, "has a bad value. (file not accessible)")
    /\ UNCHANGED <<maxVertexCount, resolution, shepardNeighbors, inputFile,
                   outputFile, logFilePath, showDebugWindow, verbose>>

ParseShowDebugWindow ==
    /\ Parsing("-showDebugWindow", "")
    /\ showDebugWindow' = TRUE
    /\ Continue
    /\ UNCHANGED <<maxVertexCount, resolution, shepardNeighbors, inputFile, outputFile,
                   outputDsmFile, logFilePath, verbose, opened>>

\* the path the -logFile branch opens to test the log file
LogTestPath(path) == outputFile

ParseLogFile(path) ==
    /\ Parsing("-logFile", path)
    /\ logFilePath' = path
    /\ TestOpen(LogTestPath(path), "has a bad value.")
    /\ UNCHANGED <<maxVertexCount, resolution, shepardNeighbors, inputFile,
                   outputFile, outputDsmFile, showDebugWindow, verbose>>

ParseUnrecognised ==
    /\ Parsing("-bogus", "")
    /\ Raise("parse", "odm", "Unrecognised argument")
    /\ UNCHANGED <<cfgVars, opened>>

\* argIndex reaches argc: parseArguments returns
ParseEnd ==
    /\ pc = "parse" /\ nParsed >= 1
    /\ pc' = "load" /\ nParsed' = 0 /\ lastArg' = NoArg
    /\ UNCHANGED <<cfgVars, meshVars, diffVars, auxVars, opened, meshWritten, executed,
                   failedStage, exception, logged, exitCode>>

parseArguments ==
    \/ ParseHelp \/ ParseVerbose \/ ParseShowDebugWindow \/ ParseUnrecognised
    \/ \E opt \in {"-maxVertexCount", "-resolution", "-shepardNeighbors", "-inputFile",
                   "-outputFile", "-outputDsmFile", "-logFile"} : ParseMissingValue(opt)
    \/ \E tok \in VertexCountTokens : ParseMaxVertexCount(tok)
    \/ \E tok \in ResolutionTokens : ParseResolution(tok)
    \/ \E tok \in ShepardTokens : ParseShepardNeighbors(tok)
    \/ \E path \in InputPaths : ParseInputFile(path)
    \/ \E path \in OutputPaths : ParseOutputFile(path)
    \/ \E path \in DsmPaths : ParseOutputDsmFile(path)
    \/ \E path \in LogPaths : ParseLogFile(path)
    \/ ParseEnd

----------------------------------------------------------------------------
(* loadPointCloud *)
\* a field list that passes the check only when all of x, y, z are absent
PositionMissingAll(fields) == fields \cap {"x", "y", "z"} = {}

\* posX == NULL || posY == NULL || posZ == NULL after the scan of the fields
PositionMissing(fields) == ~({"x", "y", "z"} \subseteq fields)

loadPointCloud ==
    /\ pc = "load"
    /\ IF ~Readable(inputFile)
       THEN /\ Raise("load", "odm", "Error when reading from")
            /\ UNCHANGED <<blob, points>>
       ELSE \E b \in Clouds :
            /\ blob' = b
            /\ IF PositionMissing(b.fields)
               THEN /\ Raise("load", "odm", "Position attributes (x,y,z) missing from input")
                    /\ points' = points
               ELSE IF b.datatype \notin {"FLOAT32", "FLOAT64"}
               THEN /\ Raise("load", "odm", "Only float and float64 types are supported")
                    /\ points' = points
               ELSE /\ points' = points + b.n
                    /\ pc' = "filter"
                    /\ UNCHANGED <<failedStage, exception>>
    /\ executed' = IF pc' = "filter" THEN Append(executed, "load") ELSE executed
    /\ UNCHANGED <<cfgVars, diffVars, auxVars, nParsed, lastArg, opened, meshWritten, logged,
                   exitCode, cleaned, extentX, extentY, width, height, iterations,
                   budget, nTriangles, nInserted, cornersIn>>

(* buildMesh, stage by stage *)
Done(stage, next) ==
    /\ pc' = next
    /\ executed' = Append(executed, stage)
    /\ UNCHANGED <<cfgVars, diffVars, auxVars, nParsed, lastArg, failedStage, exception,
                   logged, exitCode>>

\* vtkStatisticalOutlierRemoval: some points are dropped, never all of them
OutlierFilter ==
    /\ pc = "filter"
    /\ \E removed \in {0, 1} : removed < points /\ cleaned' = points - removed
    /\ Done("filter", "project")
    /\ UNCHANGED <<blob, points, extentX, extentY, width, height, iterations, budget,
                   nTriangles, nInserted, cornersIn, opened, meshWritten>>

\* the projector handing over to the smoother, the rasterizer left out
PlanarProjectorSkipsRaster ==
    /\ pc = "project"
    /\ Done("project", "smooth")
    /\ UNCHANGED <<meshVars, opened, meshWritten>>

\* the elevation is split off and z is set to 0
PlanarProjector ==
    /\ pc = "project"
    /\ Done("project", "raster")
    /\ UNCHANGED <<meshVars, opened, meshWritten>>

\* bounds, extent, raster size, Shepard interpolation, optional DSM export
Rasterizer ==
    /\ pc = "raster"
    /\ \E ex \in 0..MaxExtent, ey \in 0..MaxExtent :
         /\ cleaned = 1 => (ex = 0 /\ ey = 0)
         /\ extentX' = ex /\ extentY' = ey
         /\ width' = CeilTimes(ex, resolution)
         /\ height' = CeilTimes(ey, resolution)
    /\ width' <= MaxDim /\ height' <= MaxDim
    /\ opened' = IF outputDsmFile # "" /\ Writable(outputDsmFile)
                 THEN opened \cup {outputDsmFile} ELSE opened
    /\ Done("raster", "smooth")
    /\ UNCHANGED <<blob, points, cleaned, iterations, budget, nTriangles, nInserted,
                   cornersIn, meshWritten>>

\* SetNumberOfIterations(int) receives resolution / 2.0
NumberOfIterations(r) == TruncHalf(r)

SurfaceSmoother ==
    /\ pc = "smooth"
    /\ iterations' = NumberOfIterations(resolution)
    /\ Done("smooth", "decimate")
    /\ UNCHANGED <<blob, points, cleaned, extentX, extentY, width, height, budget,
                   nTriangles, nInserted, cornersIn, opened, meshWritten>>

\* a budget of 0 replaced by "no limit"
NumberOfTrianglesZeroUnbounded(n) == IF n = 0 THEN 2147483647 ELSE n * 2

\* SetNumberOfTriangles(maxVertexCount * 2)
NumberOfTriangles(n) == n * 2

\* the decimator treats height fields with two real dimensions only
IsHeightField(w, h) == w >= 2 /\ h >= 2

\* triangles of the initial mesh over the four raster corners
InitialTriangles == 2
\* triangles added by one insertion: the containing triangle becomes three
TrianglesPerInsertion == 2

\* the insertion loop stops once the triangle count reaches the budget
BudgetReached(n, b) == n >= b

DecimatorStart ==
    /\ pc = "decimate"
    /\ budget' = NumberOfTriangles(maxVertexCount)
    /\ nInserted' = 0
    /\ IF IsHeightField(width, height)
       THEN nTriangles' = InitialTriangles /\ cornersIn' = TRUE
       ELSE nTriangles' = 0 /\ cornersIn' = FALSE
    /\ pc' = "insert"
    /\ UNCHANGED <<cfgVars, diffVars, auxVars, nParsed, lastArg, failedStage, exception, logged,
                   exitCode, executed, blob, points, cleaned, extentX, extentY, width, height,
                   iterations, opened, meshWritten>>

\* the cell of greatest error becomes a vertex
DecimatorInsert ==
    /\ pc = "insert"
    /\ IsHeightField(width, height)
    /\ ~BudgetReached(nTriangles, budget)
    /\ nInserted + 4 < width * height
    /\ nInserted < MaxInsertions
    /\ nInserted' = nInserted + 1
    /\ nTriangles' = nTriangles + TrianglesPerInsertion
    /\ UNCHANGED <<cfgVars, diffVars, auxVars, runVars, blob, points, cleaned, extentX, extentY,
                   width, height, iterations, budget, cornersIn>>

\* the budget is reached, or no cell has an error left
DecimatorStop ==
    /\ pc = "insert"
    /\ Done("decimate", "transform")
    /\ UNCHANGED <<meshVars, opened, meshWritten>>

WorldTransform ==
    /\ pc = "transform"
    /\ Done("transform", "write")
    /\ UNCHANGED <<meshVars, opened, meshWritten>>

\* vtkPLYWriter::Write reports a file it cannot open and returns
MeshWriter ==
    /\ pc = "write"
    /\ IF Writable(outputFile)
       THEN opened' = opened \cup {outputFile} /\ meshWritten' = TRUE
       ELSE UNCHANGED <<opened, meshWritten>>
    /\ Done("write", "finish")
    /\ UNCHANGED meshVars

\* an allocation inside a stage fails with std::bad_alloc
StageThrows ==
    /\ IsStage(pc)
    /\ Raise(StageOf(pc), "std", "std::bad_alloc")
    /\ UNCHANGED <<cfgVars, meshVars, diffVars, auxVars, nParsed, lastArg, opened, meshWritten,
                   executed, logged, exitCode>>

buildMesh ==
    \/ OutlierFilter \/ PlanarProjector \/ Rasterizer \/ SurfaceSmoother
    \/ DecimatorStart \/ DecimatorInsert \/ DecimatorStop
    \/ WorldTransform \/ MeshWriter

(* run(): the two catch clauses and the normal return *)
Handler(kinds, code) ==
    /\ pc = "catch" /\ exception.kind \in kinds
    /\ logged' = exception.what
    /\ exitCode' = code
    /\ pc' = "done"
    /\ UNCHANGED <<cfgVars, meshVars, diffVars, auxVars, nParsed, lastArg, opened, meshWritten,
                   executed, failedStage, exception>>

CatchOdm25dMeshingException == Handler({"odm"}, "EXIT_FAILURE")

\* a catch clause that reports the error and still returns success
CatchStdExceptionSucceeds == Handler({"std"}, "EXIT_SUCCESS")

CatchStdException == Handler({"std"}, "EXIT_FAILURE")

RunReturn ==
    /\ pc = "finish"
    /\ pc' = "done" /\ exitCode' = "EXIT_SUCCESS"
    /\ UNCHANGED <<cfgVars, meshVars, diffVars, auxVars, nParsed, lastArg, opened, meshWritten,
                   executed, failedStage, exception, logged>>

run ==
    \/ RunNoArgs \/ RunWithArgs \/ parseArguments \/ loadPointCloud \/ buildMesh
    \/ StageThrows \/ CatchOdm25dMeshingException \/ CatchStdException \/ RunReturn

Next == run

Spec == Init /\ [][Next]_vars

TypeOK ==
    /\ pc \in {"idle", "start", "parse", "load", "filter", "project", "raster", "smooth",
               "decimate", "insert", "transform", "write", "finish", "catch", "done"}
    /\ exitCode \in {"none", "EXIT_SUCCESS", "EXIT_FAILURE", "exit(0)"}

----------------------------------------------------------------------------
(* Raster diffusion: vtkImageAnisotropicDiffusion2D as buildMesh sets it   *)
(* up (faces and corners on, diffusion factor 1, gradient magnitude        *)
(* threshold 0.2).  Elevations are integers in 1/1000 length units; the    *)
(* raster holds floats and the sentinel NODATA is one of them.             *)
CellValues == {NODATA, 0, 120}

\* weights of a face and of a corner neighbour, 1 : 1/sqrt(2), and their
\* sum over the 4 + 4 neighbours; the diffusion factor is 1
FaceWeight == 10
CornerWeight == 7
WeightSum == 4 * FaceWeight + 4 * CornerWeight

Abs(a) == IF a < 0 THEN -a ELSE a
\* division that truncates toward zero
Quot(a, b) == IF a >= 0 THEN a \div b ELSE -((-a) \div b)

Cells == (0..(dW - 1)) \X (0..(dH - 1))
Inside(i, j) == i >= 0 /\ i < dW /\ j >= 0 /\ j < dH

\* an update whose stencil reads 0 outside the raster
DiffuseCellZeroPadded(buf, c) ==
    LET v == buf[c]
        at(di, dj) == IF Inside(c[1] + di, c[2] + dj)
                      THEN buf[<<c[1] + di, c[2] + dj>>] ELSE 0
        d0 == at(1, 0) - at(-1, 0)
        d1 == at(0, 1) - at(0, -1)
        steep == \/ Abs(d0) > DiffusionThreshold
                 \/ Abs(d1) > DiffusionThreshold
                 \/ d0 * d0 + d1 * d1 > DiffusionThreshold * DiffusionThreshold
        faces == (at(-1, 0) - v) + (at(1, 0) - v) + (at(0, -1) - v) + (at(0, 1) - v)
        corners == (at(-1, -1) - v) + (at(1, -1) - v) + (at(-1, 1) - v) + (at(1, 1) - v)
    IN  IF steep THEN v
        ELSE v + Quot(FaceWeight * faces + CornerWeight * corners, WeightSum)

\* the new value of cell c computed from raster buf; a neighbour outside
\* the raster counts as the cell itself (reduced stencil, no wrap-around)
DiffuseCell(buf, c) ==
    LET v == buf[c]
        at(di, dj) == IF Inside(c[1] + di, c[2] + dj)
                      THEN buf[<<c[1] + di, c[2] + dj>>] ELSE v
        d0 == at(1, 0) - at(-1, 0)
        d1 == at(0, 1) - at(0, -1)
        steep == \/ Abs(d0) > DiffusionThreshold
                 \/ Abs(d1) > DiffusionThreshold
                 \/ d0 * d0 + d1 * d1 > DiffusionThreshold * DiffusionThreshold
        faces == (at(-1, 0) - v) + (at(1, 0) - v) + (at(0, -1) - v) + (at(0, 1) - v)
        corners == (at(-1, -1) - v) + (at(1, -1) - v) + (at(-1, 1) - v) + (at(1, 1) - v)
    IN  IF steep THEN v
        ELSE v + Quot(FaceWeight * faces + CornerWeight * corners, WeightSum)

\* rows are dealt to the threads in turn; a thread walks its rows in order
RowsOf(t) == {r \in 0..(dH - 1) : r % NumThreads = t - 1}
NumCellsOf(t) == dW * Cardinality(RowsOf(t))
CellOf(t, k) == <<(k - 1) % dW, (t - 1) + NumThreads * ((k - 1) \div dW)>>
AllFinished == \A t \in 1..NumThreads : pos[t] = NumCellsOf(t)

\* an update that reads the raster the threads are writing
ReadBufferInPlace == outBuf

\* the raster the cell updates of one iteration read: the input buffer,
\* which no thread writes during the iteration
ReadBuffer == inBuf

(* The run variables are idle while the diffusion is examined on its own *)
RunIdle ==
    /\ pc = "idle" /\ nParsed = 0 /\ lastArg = NoArg
    /\ maxVertexCount = 0 /\ resolution = Zero /\ shepardNeighbors = 0
    /\ inputFile = "" /\ outputFile = "" /\ outputDsmFile = "" /\ logFilePath = ""
    /\ showDebugWindow = FALSE /\ verbose = FALSE
    /\ opened = {} /\ meshWritten = FALSE
    /\ blob = NoBlob /\ points = 0 /\ cleaned = 0
    /\ extentX = 0 /\ extentY = 0 /\ width = 0 /\ height = 0
    /\ iterations = 0 /\ budget = 0
    /\ nTriangles = 0 /\ nInserted = 0 /\ cornersIn = FALSE
    /\ executed = <<>> /\ failedStage = "none"
    /\ exception = NoException /\ logged = "" /\ exitCode = "none"

InitSmooth ==
    /\ RunIdle /\ TransformIdle /\ CloudIdle
    /\ dW \in 1..MaxCells /\ dH \in 1..MaxCells /\ dW * dH <= MaxCells
    /\ inBuf \in [(0..(dW - 1)) \X (0..(dH - 1)) -> CellValues]
    /\ outBuf = inBuf /\ origBuf = inBuf
    /\ pos = [t \in 1..NumThreads |-> 0]
    /\ iterLeft \in 0..MaxIter
    /\ dpc = IF iterLeft = 0 THEN "done" ELSE "iterate"

\* thread t computes the next cell of its rows
UpdateCell(t) ==
    /\ dpc = "iterate"
    /\ pos[t] < NumCellsOf(t)
    /\ LET c == CellOf(t, pos[t] + 1) IN
       outBuf' = [outBuf EXCEPT ![c] = DiffuseCell(ReadBuffer, c)]
    /\ pos' = [pos EXCEPT ![t] = pos[t] + 1]
    /\ UNCHANGED <<cfgVars, meshVars, runVars, auxVars, dpc, dW, dH, inBuf, origBuf, iterLeft>>

\* all threads are through: the output becomes the input of the next pass
EndIteration ==
    /\ dpc = "iterate"
    /\ AllFinished
    /\ inBuf' = outBuf
    /\ pos' = [t \in 1..NumThreads |-> 0]
    /\ iterLeft' = iterLeft - 1
    /\ dpc' = IF iterLeft' = 0 THEN "done" ELSE "iterate"
    /\ UNCHANGED <<cfgVars, meshVars, runVars, auxVars, dW, dH, outBuf, origBuf>>

NextSmooth == (\E t \in 1..NumThreads : UpdateCell(t)) \/ EndIteration

SpecSmooth == InitSmooth /\ [][NextSmooth]_vars

----------------------------------------------------------------------------
(* World transform: the vtkTransform built after the decimation and the    *)
(* vtkTransformFilter that applies it to the vertices of the mesh          *)

\* corners (minimum x or y) of the bounding box that are explored
Corners == {-3, 0, 2}
\* elevations of a vertex that are explored, in 1/1000 length units
Elevations == {0, 120}

\* width = ceil(extentX * resolution) and height = ceil(extentY * resolution)
\* for one and the same resolution
SameResolution(ex, ey, w, h) == (w - 1) * ey < h * ex /\ (h - 1) * ex < w * ey

\* the product M * N of two matrices: the map p |-> M(N(p))
Concatenate(M, N) ==
    Matrix([k \in 1..3 |-> QMul(M.s[k], N.s[k])],
           [k \in 1..3 |-> QAdd(QMul(M.s[k], N.t[k]), M.t[k])])

\* concatenation in PostMultiply mode: New * Current
PostMultiply(current, new) == Concatenate(new, current)

\* vtkTransform concatenates in PreMultiply mode unless told otherwise: the
\* matrix of a call is multiplied on the right, Current * New
PreMultiply(current, new) == Concatenate(current, new)

\* Translate(-extentX / 2.0 + center[0], -extentY / 2.0 + center[1], 0)
TranslateArguments ==
    <<QAdd(QNeg(Q(extentX, 2)), center[1]),
      QAdd(QNeg(Q(extentY, 2)), center[2]), QInt(0)>>

\* Scale(extentX / width, extentY / height, 1)
ScaleArguments == <<Q(extentX, width), Q(extentY, height), QInt(1)>>

\* the transform is built for a mesh that has vertices: a raster of at least
\* 2 x 2 cells over a bounding box with two real dimensions
InitTransform ==
    /\ pc = "idle" /\ nParsed = 0 /\ lastArg = NoArg
    /\ maxVertexCount = 0 /\ resolution = Zero /\ shepardNeighbors = 0
    /\ inputFile = "" /\ outputFile = "" /\ outputDsmFile = "" /\ logFilePath = ""
    /\ showDebugWindow = FALSE /\ verbose = FALSE
    /\ opened = {} /\ meshWritten = FALSE
    /\ blob = NoBlob /\ points = 0 /\ cleaned = 0
    /\ iterations = 0 /\ budget = 0
    /\ nTriangles = 0 /\ nInserted = 0 /\ cornersIn = FALSE
    /\ executed = <<>> /\ failedStage = "none"
    /\ exception = NoException /\ logged = "" /\ exitCode = "none"
    /\ DiffusionIdle /\ CloudIdle
    /\ extentX \in 1..MaxExtent /\ extentY \in 1..MaxExtent
    /\ width \in 2..MaxDim /\ height \in 2..MaxDim
    /\ SameResolution(extentX, extentY, width, height)
    /\ \E minX \in Corners, minY \in Corners :
         center = <<QAdd(QInt(minX), Q(extentX, 2)), QAdd(QInt(minY), Q(extentY, 2))>>
    /\ tpc = "new" /\ transform = Identity
    /\ vertex = <<0, 0, 0>> /\ worldVertex = NoVertex

TransformFrame ==
    UNCHANGED <<cfgVars, meshVars, runVars, diffVars, center, polydataToProcess>>

\* transform->Translate(...)
Translate ==
    /\ tpc = "new"
    /\ transform' = PreMultiply(transform, Matrix(Identity.s, TranslateArguments))
    /\ tpc' = "translated"
    /\ UNCHANGED <<vertex, worldVertex>> /\ TransformFrame

\* transform->Scale(...)
Scale ==
    /\ tpc = "translated"
    /\ transform' = PreMultiply(transform, Matrix(ScaleArguments, Identity.t))
    /\ tpc' = "scaled"
    /\ UNCHANGED <<vertex, worldVertex>> /\ TransformFrame

\* the transform filter maps a vertex (i, j, elevation) of the mesh
TransformFilter(i, j, elevation) ==
    /\ tpc \in {"scaled", "applied"}
    /\ vertex' = <<i, j, elevation>>
    /\ worldVertex' = [k \in 1..3 |->
                          QAdd(QMul(transform.s[k], QInt(vertex'[k])), transform.t[k])]
    /\ tpc' = "applied"
    /\ UNCHANGED transform /\ TransformFrame

NextTransform ==
    \/ Translate
    \/ Scale
    \/ \E i \in 0..(width - 1), j \in 0..(height - 1), elevation \in Elevations :
          TransformFilter(i, j, elevation)

SpecTransform == InitTransform /\ [][NextTransform]_vars

----------------------------------------------------------------------------
(* buildMesh from the rasterizer to the decimator on a cloud that is       *)
(* followed point by point: the points of a square grid of spacing 1, the  *)
(* point (a, b) of the grid at the planar position (minX + a, minY + b)    *)

GridSide == 4               \* largest number of grid points along one side
GroundElevation == 5000     \* z = 5, in 1/1000 length units
BumpElevation == 5120
ShepardOne == 1000          \* the weight of a source at distance 1

GridPoints(side) == (0..(side - 1)) \X (0..(side - 1))

\* the flat cloud and the clouds with one raised point
GridClouds(side) ==
    {[q \in GridPoints(side) |-> GroundElevation]} \cup
    {[q \in GridPoints(side) |-> IF q = b THEN BumpElevation ELSE GroundElevation] :
        b \in GridPoints(side)}

\* squared planar distance, in units of 1 / (w * h)^2, between the point of
\* the plane that cell c reads (the first corner of cell c of a plane of
\* w x h cells over the bounding box) and the grid point q
Dist2(c, q, ex, ey, w, h) ==
    ((c[1] * ex - q[1] * w) * h) * ((c[1] * ex - q[1] * w) * h)
    + ((c[2] * ey - q[2] * h) * w) * ((c[2] * ey - q[2] * h) * w)

\* the locator's order of the sources around c: nearer first, ties by position
Before(c, q, r, ex, ey, w, h) ==
    LET dq == Dist2(c, q, ex, ey, w, h)
        dr == Dist2(c, r, ex, ey, w, h)
    IN  \/ dq < dr
        \/ dq = dr /\ (q[1] < r[1] \/ (q[1] = r[1] /\ q[2] < r[2]))

\* the k closest sources, all of them when the cloud has fewer than k
NClosest(c, k, side, ex, ey, w, h) ==
    IF side * side <= k THEN GridPoints(side)
    ELSE {q \in GridPoints(side) :
            Cardinality({r \in GridPoints(side) : Before(c, r, q, ex, ey, w, h)}) < k}

RECURSIVE SumOver(_, _)
SumOver(S, f) ==
    IF S = {} THEN 0
    ELSE LET q == CHOOSE r \in S : TRUE IN f[q] + SumOver(S \ {q}, f)

\* weight 1 / distance^2 of a source at squared distance d2 > 0
ShepardWeight(d2, w, h) == (ShepardOne * w * w * h * h) \div d2

\* a weighted sum that is not divided by the sum of the weights
ShepardSumUnnormalised(near, c, cloud, ex, ey, w, h) ==
    LET hits == {q \in near : Dist2(c, q, ex, ey, w, h) = 0}
        wgt == [q \in near |-> ShepardWeight(Dist2(c, q, ex, ey, w, h), w, h)]
        wz == [q \in near |-> wgt[q] * cloud.elevation[q]]
    IN  IF near = {} THEN NODATA
        ELSE IF hits # {} THEN cloud.elevation[CHOOSE q \in hits : TRUE]
        ELSE SumOver(near, wz) \div ShepardOne

\* the elevation at the point cell c reads, from the sources near: a source
\* at distance 0 is an exact match, no source at all gives the null value,
\* otherwise sum(weight * elevation) / sum(weight)
ShepardSum(near, c, cloud, ex, ey, w, h) ==
    LET hits == {q \in near : Dist2(c, q, ex, ey, w, h) = 0}
        wgt == [q \in near |-> ShepardWeight(Dist2(c, q, ex, ey, w, h), w, h)]
        wz == [q \in near |-> wgt[q] * cloud.elevation[q]]
    IN  IF near = {} THEN NODATA
        ELSE IF hits # {} THEN cloud.elevation[CHOOSE q \in hits : TRUE]
        ELSE SumOver(near, wz) \div SumOver(near, wgt)

\* vtkShepardKernel with power 2 over the N closest sources
ShepardKernel(c, cloud, k, ex, ey, w, h) ==
    ShepardSum(NClosest(c, k, cloud.side, ex, ey, w, h), c, cloud, ex, ey, w, h)

\* the state after the planar projector, for every cloud of the family
InitGrid ==
    /\ pc = "raster" /\ nParsed = 0 /\ lastArg = NoArg
    /\ maxVertexCount \in DefaultVertexCounts
    /\ resolution \in DefaultResolutions
    /\ shepardNeighbors \in {ShepardMin, SampleSize}
    /\ inputFile = "cloud.ply" /\ outputFile = DefaultOutputFile /\ outputDsmFile = ""
    /\ logFilePath = DefaultLogFilePath
    /\ showDebugWindow = FALSE /\ verbose = FALSE
    /\ opened = {} /\ meshWritten = FALSE
    /\ \E side \in 2..GridSide :
         /\ polydataToProcess \in [side : {side}, elevation : GridClouds(side)]
         /\ blob = [fields |-> {"x", "y", "z"}, datatype |-> "FLOAT32", n |-> side * side]
         /\ points = side * side /\ cleaned = side * side
    /\ extentX = 0 /\ extentY = 0 /\ width = 0 /\ height = 0
    /\ iterations = 0 /\ budget = 0
    /\ nTriangles = 0 /\ nInserted = 0 /\ cornersIn = FALSE
    /\ executed = <<"load", "filter", "project">> /\ failedStage = "none"
    /\ exception = NoException /\ logged = "" /\ exitCode = "none"
    /\ DiffusionIdle /\ TransformIdle

\* extents, raster size, Shepard interpolation and the copy into the image
GridRasterizer ==
    /\ pc = "raster"
    /\ extentX' = polydataToProcess.side - 1
    /\ extentY' = polydataToProcess.side - 1
    /\ width' = CeilTimes(extentX', resolution)
    /\ height' = CeilTimes(extentY', resolution)
    /\ dW' = width' /\ dH' = height'
    /\ inBuf' = [c \in (0..(width' - 1)) \X (0..(height' - 1)) |->
                    ShepardKernel(c, polydataToProcess, shepardNeighbors,
                                  extentX', extentY', width', height')]
    /\ outBuf' = inBuf' /\ origBuf' = inBuf'
    /\ pc' = "smooth" /\ executed' = Append(executed, "raster")
    /\ UNCHANGED <<cfgVars, auxVars, nParsed, lastArg, opened, meshWritten, failedStage,
                   exception, logged, exitCode, blob, points, cleaned, iterations,
                   budget, nTriangles, nInserted, cornersIn, dpc, pos, iterLeft>>

\* the diffusion filter is set up and its passes begin
GridSmootherStart ==
    /\ pc = "smooth"
    /\ iterations' = NumberOfIterations(resolution)
    /\ iterLeft' = iterations'
    /\ pos' = [t \in 1..NumThreads |-> 0]
    /\ dpc' = IF iterLeft' = 0 THEN "done" ELSE "iterate"
    /\ pc' = "smoothing"
    /\ UNCHANGED <<cfgVars, auxVars, nParsed, lastArg, opened, meshWritten, executed,
                   failedStage, exception, logged, exitCode, blob, points, cleaned,
                   extentX, extentY, width, height, budget, nTriangles, nInserted,
                   cornersIn, dW, dH, inBuf, outBuf, origBuf>>

\* one pass of the diffusion over the whole raster, all threads through:
\* every cell is computed from the input buffer and the output becomes the
\* input of the next pass
GridSmootherPass ==
    /\ pc = "smoothing" /\ dpc = "iterate"
    /\ outBuf' = [c \in Cells |-> DiffuseCell(ReadBuffer, c)]
    /\ inBuf' = outBuf'
    /\ iterLeft' = iterLeft - 1
    /\ dpc' = IF iterLeft' = 0 THEN "done" ELSE "iterate"
    /\ UNCHANGED <<cfgVars, meshVars, runVars, auxVars, dW, dH, origBuf, pos>>

\* the passes are through
GridSmootherEnd ==
    /\ pc = "smoothing" /\ dpc = "done"
    /\ Done("smooth", "decimate")
    /\ UNCHANGED <<meshVars, opened, meshWritten>>

\* the error of cell c against the mesh of the two initial triangles, times
\* (dW - 1) * (dH - 1); the two triangles meet in the diagonal diag
InitialError(c, diag) ==
    LET W1 == dW - 1
        H1 == dH - 1
        zA == inBuf[<<0, 0>>]
        zB == inBuf[<<W1, 0>>]
        zC == inBuf[<<0, H1>>]
        zD == inBuf[<<W1, H1>>]
        i == c[1]
        j == c[2]
        plane ==
            IF diag = "AD"
            THEN IF j * W1 <= i * H1
                 THEN zA * W1 * H1 + (zB - zA) * i * H1 + (zD - zB) * j * W1
                 ELSE zA * W1 * H1 + (zC - zA) * j * W1 + (zD - zC) * i * H1
            ELSE IF i * H1 + j * W1 <= W1 * H1
                 THEN zA * W1 * H1 + (zB - zA) * i * H1 + (zC - zA) * j * W1
                 ELSE zD * W1 * H1 + (zC - zD) * (W1 - i) * H1 + (zB - zD) * (H1 - j) * W1
    IN  Abs(inBuf[c] * W1 * H1 - plane)

\* some cell has an error against the initial mesh
HasInitialError == \E c \in Cells, diag \in {"AD", "BC"} : InitialError(c, diag) > 0

\* an insertion of the decimator: the first one needs a cell with an error
\* against the initial mesh, the errors after an insertion are left open
GridDecimatorInsert ==
    /\ DecimatorInsert
    /\ nInserted = 0 => HasInitialError

NextGrid ==
    \/ GridRasterizer
    \/ GridSmootherStart
    \/ GridSmootherPass
    \/ GridSmootherEnd
    \/ DecimatorStart
    \/ GridDecimatorInsert
    \/ DecimatorStop

SpecGrid == InitGrid /\ [][NextGrid]_vars

----------------------------------------------------------------------------
Range(f) == {f[k] : k \in 1..Len(f)}
Max(a, b) == IF a >= b THEN a ELSE b

Ran(stage) == stage \in Range(executed)
DecimatorRan == pc = "insert" \/ Ran("decimate")

\* C1: the mesh of the Greedy Decimator never holds more triangles than
\* maxVertexCount * 2, during the insertion loop and in the output, and for
\* a budget of at least 2 the four raster corners are vertices of the mesh.
C1_TriangleBudget ==
    DecimatorRan =>
        /\ nTriangles <= maxVertexCount * 2
        /\ (maxVertexCount * 2 >= 2 => cornersIn)

\* C2: a cloud of fewer than neighborCount + 1 points fails at the Outlier
\* Filter: the filter and every later stage do not complete, the run ends
\* in failure at that stage, and the output mesh file was never created.
C2_SmallCloudFails ==
    (Ran("load") /\ points < SampleSize + 1) =>
        /\ executed = <<"load">>
        /\ (pc = "done" =>
              /\ exitCode = "EXIT_FAILURE" /\ failedStage = "filter"
              /\ outputFile \notin opened /\ ~meshWritten)

\* C3: once a stage has raised, no stage completes any more and nothing is
\* retried; the error is written to the log and run returns EXIT_FAILURE;
\* EXIT_SUCCESS is returned only when no stage raised.
C3_ErrorsAbort ==
    /\ [](failedStage # "none" =>
            /\ pc \in {"catch", "done"}
            /\ failedStage \notin Range(executed)
            /\ exception.kind # "none"
            /\ (pc = "done" => exitCode = "EXIT_FAILURE" /\ logged = exception.what))
    /\ [](exitCode = "EXIT_SUCCESS" => failedStage = "none" /\ logged = "")
    /\ [][failedStage # "none" =>
            /\ executed' = executed /\ failedStage' = failedStage
            /\ pc' \in {"catch", "done"}]_vars

C3_Witness ==
    /\ pc = "done" /\ failedStage = "raster" /\ exitCode = "EXIT_FAILURE"
    /\ executed = <<"load", "filter", "project">>

\* C4: the completed stages always form a prefix of load, filter, project,
\* raster, smooth, decimate, transform, write; the stage in progress is the
\* next of that order, so the writer runs only after the seven before it.
C4_StageOrder ==
    /\ Len(executed) <= Len(StageOrder)
    /\ \A k \in 1..Len(executed) : executed[k] = StageOrder[k]
    /\ IsStage(pc) =>
          /\ Len(executed) < Len(StageOrder)
          /\ StageOf(pc) = StageOrder[Len(executed) + 1]
    /\ pc = "finish" => executed = StageOrder

C4_Witness == pc = "done" /\ executed = StageOrder /\ meshWritten

\* C5: the smoother runs resolution / 2 iterations, rounded to the nearest
\* integer and never less than 1.
C5_Iterations ==
    Ran("smooth") => iterations = Max(1, RoundHalf(resolution))

NumberDenoted(tok) ==
    CASE tok = "0" -> 0 [] tok = "1" -> 1 [] tok = "24" -> 24 [] tok = "1000" -> 1000
      [] tok = "5000" -> 5000 [] tok = "-5" -> -5 [] OTHER -> 0

\* C7: an accepted numeric -resolution value is stored clamped to
\* [1e-5, 1e5] and an accepted numeric -shepardNeighbors value is stored
\* clamped to [1, 1000]: below the range the lower bound, above it the upper
\* bound, inside it the value itself.
C7_Clamps ==
    (pc = "parse" /\ IsNumeric(lastArg.val)) =>
        /\ lastArg.opt = "-resolution" =>
              LET v == ExtractDouble(lastArg.val) IN
              resolution = IF RLess(v, ResolutionMin) THEN ResolutionMin
                           ELSE IF RLess(ResolutionMax, v) THEN ResolutionMax ELSE v
        /\ lastArg.opt = "-shepardNeighbors" =>
              LET n == NumberDenoted(lastArg.val) IN
              shepardNeighbors = IF n < ShepardMin THEN ShepardMin
                                 ELSE IF n > ShepardMax THEN ShepardMax ELSE n

\* C9: a raster of fewer than 4 cells makes the run fail: the mesh writer
\* does not run, no mesh is written, and run does not return success.
C9_SmallRasterFails ==
    (Ran("raster") /\ width * height < 4) =>
        /\ ~Ran("write") /\ ~meshWritten
        /\ (pc = "done" => exitCode = "EXIT_FAILURE")

\* the update of cell c when NODATA cells take no part: a NODATA cell keeps
\* its value and a NODATA neighbour counts as absent
MaskedDiffuseCell(buf, c) ==
    LET v == buf[c]
        at(di, dj) == IF /\ Inside(c[1] + di, c[2] + dj)
                         /\ buf[<<c[1] + di, c[2] + dj>>] # NODATA
                      THEN buf[<<c[1] + di, c[2] + dj>>] ELSE v
        d0 == at(1, 0) - at(-1, 0)
        d1 == at(0, 1) - at(0, -1)
        steep == \/ Abs(d0) > DiffusionThreshold
                 \/ Abs(d1) > DiffusionThreshold
                 \/ d0 * d0 + d1 * d1 > DiffusionThreshold * DiffusionThreshold
        faces == (at(-1, 0) - v) + (at(1, 0) - v) + (at(0, -1) - v) + (at(0, 1) - v)
        corners == (at(-1, -1) - v) + (at(1, -1) - v) + (at(-1, 1) - v) + (at(1, 1) - v)
    IN  IF v = NODATA \/ steep THEN v
        ELSE v + Quot(FaceWeight * faces + CornerWeight * corners, WeightSum)

\* C8: a cell that is NODATA before smoothing is NODATA after it, and every
\* pass gives each cell the value it has when its NODATA neighbours are left
\* out (NODATA cells are neither sources nor targets of the diffusion).
C8_NodataUntouched ==
    /\ dpc = "done" => \A c \in Cells : origBuf[c] = NODATA => inBuf[c] = NODATA
    /\ (dpc = "iterate" /\ AllFinished) =>
           \A c \in Cells : outBuf[c] = MaskedDiffuseCell(inBuf, c)

\* C10: whatever the interleaving of the threads, every cell updated in a
\* pass holds the value computed from the raster as it was when the pass
\* began, so the finished pass equals the sequential double-buffered one.
C10_DoubleBuffered ==
    dpc = "iterate" =>
        \A t \in 1..NumThreads : \A k \in 1..pos[t] :
            outBuf[CellOf(t, k)] = DiffuseCell(inBuf, CellOf(t, k))

C10_Witness ==
    /\ dpc = "iterate" /\ AllFinished /\ dH >= 2 /\ dW >= 2
    /\ outBuf # inBuf
    /\ outBuf = [c \in Cells |-> DiffuseCell(inBuf, c)]

\* the raster handed to the smoother holds one elevation in all its cells
Flat(buf) == \A c \in Cells, d \in Cells : buf[c] = buf[d]

\* C11: a raster whose cells are all equal is a fixed point of the smoother:
\* during and after every pass, for every size and iteration count, both
\* buffers equal the input raster cell for cell.
C11_FlatFixedPoint ==
    Flat(origBuf) => (inBuf = origBuf /\ outBuf = origBuf)

C11_Witness ==
    /\ dpc = "iterate" /\ AllFinished /\ iterLeft = 1
    /\ Flat(origBuf) /\ outBuf = origBuf
    /\ dW >= 2 /\ dH >= 2 /\ origBuf[<<0, 0>>] = 120

\* C12: a cloud whose field list lacks x, y or z is rejected by the loader:
\* an error with a reason is raised, no point reaches the Point Store, no
\* stage of buildMesh runs, and run returns EXIT_FAILURE.
C12_MissingPositionRejected ==
    (blob # NoBlob /\ ~({"x", "y", "z"} \subseteq blob.fields)) =>
        /\ pc \in {"catch", "done"}
        /\ failedStage = "load" /\ exception.kind = "odm" /\ exception.what # ""
        /\ points = 0 /\ executed = <<>>
        /\ (pc = "done" => exitCode = "EXIT_FAILURE" /\ logged = exception.what)

C12_Witness ==
    /\ pc = "done" /\ blob # NoBlob /\ blob.fields = {"x", "y"}
    /\ exitCode = "EXIT_FAILURE"
    /\ logged = "Position attributes (x,y,z) missing from input"

\* C15: -logFile validates the supplied log path and nothing else: the option
\* is accepted exactly when that path can be opened for writing, and handling
\* it opens no other file, the output mesh file in particular.
C15_LogFileOnly ==
    lastArg.opt = "-logFile" =>
        /\ (pc = "parse") <=> Writable(lastArg.val)
        /\ nParsed = 1 => opened \subseteq {lastArg.val}

NumericOptions == {"-maxVertexCount", "-resolution", "-shepardNeighbors"}

\* C16: a numeric option followed by an argument that is not a number raises
\* the 'has a bad value (wrong type)' error, the step that handles it leaves
\* the three numeric configuration values as they were, and run returns
\* EXIT_FAILURE without loading points or building a mesh.
C16_WrongType ==
    /\ [](lastArg.opt \in NumericOptions /\ ~IsNumeric(lastArg.val) =>
            /\ pc \in {"catch", "done"}
            /\ exception.what = "has a bad value (wrong type)"
            /\ points = 0 /\ executed = <<>>
            /\ pc = "done" => exitCode = "EXIT_FAILURE")
    /\ [][(nParsed' = nParsed + 1 /\ lastArg'.opt \in NumericOptions
             /\ ~IsNumeric(lastArg'.val)) =>
          UNCHANGED <<maxVertexCount, resolution, shepardNeighbors>>]_vars

\* C13: the World Transform puts out every mesh vertex (i, j, elevation) as
\* (i * extentX / width - extentX / 2 + center.x,
\*  j * extentY / height - extentY / 2 + center.y, elevation): the grid
\* coordinates are scaled first and translated second, the elevation is kept.
C13_WorldTransform ==
    tpc = "applied" =>
        /\ worldVertex[1] = QAdd(QAdd(QMul(QInt(vertex[1]), Q(extentX, width)),
                                      QNeg(Q(extentX, 2))), center[1])
        /\ worldVertex[2] = QAdd(QAdd(QMul(QInt(vertex[2]), Q(extentY, height)),
                                      QNeg(Q(extentY, 2))), center[2])
        /\ worldVertex[3] = QInt(vertex[3])

C13_Witness ==
    /\ tpc = "applied" /\ vertex = <<1, 2, 120>>
    /\ extentX = 2 /\ width = 3 /\ center[1] = QInt(-2)
    /\ worldVertex[1] = Q(-7, 3) /\ worldVertex[3] = QInt(120)

\* the cloud that is followed holds one elevation in all its points
FlatCloud ==
    /\ polydataToProcess # NoCloud
    /\ \A q \in GridPoints(polydataToProcess.side) :
          polydataToProcess.elevation[q] = GroundElevation

====
